---- MODULE Spec2Model ----
(***************************************************************************)
(* Model of the form interpreter of benepass-form-builder:                 *)
(*   src/src/components/FormRenderer.tsx  (buildZodSchema, getDefaultValues,*)
(*   isFieldVisible, handleChange, handleSubmit, the submit button)         *)
(*   src/src/App.tsx                      (setSchema on import / edits)     *)
(* Values are JavaScript values (undefined, null, string, number, boolean);*)
(* a string is a sequence of one-character strings so that length, number  *)
(* coercion, substring and pattern tests are computed, not assumed.        *)
(* Zod is the validation library the renderer calls (v4 semantics: every   *)
(* check of a schema runs and pushes its own issue unless the type check   *)
(* of the base schema failed, which aborts the remaining checks).          *)
(***************************************************************************)
EXTENDS Integers, Sequences, FiniteSets, TLC

\* ------------------------------------------------------------------ bounds
MaxFields == 2          \* longest schema.fields explored
MaxSchemaChanges == 1   \* schema replacements explored per behaviour

\* ------------------------------------------------------- JavaScript values
Undefined == [kind |-> "undefined", s |-> <<>>, n |-> 0, b |-> FALSE]
Null == [kind |-> "null", s |-> <<>>, n |-> 0, b |-> FALSE]
NaN == [kind |-> "NaN", s |-> <<>>, n |-> 0, b |-> FALSE]
Str(chars) == [kind |-> "string", s |-> chars, n |-> 0, b |-> FALSE]
Num(k) == [kind |-> "number", s |-> <<>>, n |-> k, b |-> FALSE]
Bool(x) == [kind |-> "boolean", s |-> <<>>, n |-> 0, b |-> x]

Digits == {"0", "1", "2", "3", "4", "5", "6", "7", "8", "9"}
Lower == {"a", "b", "c", "d", "e", "f", "g", "h", "i", "j", "k", "l", "m",
          "n", "o", "p", "q", "r", "s", "t", "u", "v", "w", "x", "y", "z"}

DigitVal(c) ==
  CASE c = "0" -> 0 [] c = "1" -> 1 [] c = "2" -> 2 [] c = "3" -> 3
    [] c = "4" -> 4 [] c = "5" -> 5 [] c = "6" -> 6 [] c = "7" -> 7
    [] c = "8" -> 8 [] c = "9" -> 9

DigitChar(d) ==
  CASE d = 0 -> "0" [] d = 1 -> "1" [] d = 2 -> "2" [] d = 3 -> "3"
    [] d = 4 -> "4" [] d = 5 -> "5" [] d = 6 -> "6" [] d = 7 -> "7"
    [] d = 8 -> "8" [] d = 9 -> "9"

IsDigits(chars) == \A i \in 1..Len(chars) : chars[i] \in Digits

RECURSIVE DigitsValue(_)
DigitsValue(chars) ==
  IF chars = <<>> THEN 0
  ELSE DigitsValue(SubSeq(chars, 1, Len(chars) - 1)) * 10
       + DigitVal(chars[Len(chars)])

RECURSIVE NatToChars(_)
NatToChars(k) ==
  IF k < 10 THEN <<DigitChar(k)>>
  ELSE NatToChars(k \div 10) \o <<DigitChar(k % 10)>>

\* Number(v): "" and null become 0, undefined and non-numeric text become
\* NaN.  The input alphabet has no whitespace, sign, fraction or exponent.
ToNumber(v) ==
  CASE v.kind = "number" -> v
    [] v.kind = "NaN" -> NaN
    [] v.kind = "undefined" -> NaN
    [] v.kind = "null" -> Num(0)
    [] v.kind = "boolean" -> Num(IF v.b THEN 1 ELSE 0)
    [] v.kind = "string" ->
         IF v.s = <<>> THEN Num(0)
         ELSE IF IsDigits(v.s) THEN Num(DigitsValue(v.s)) ELSE NaN

\* String(v)
JsString(v) ==
  CASE v.kind = "string" -> v.s
    [] v.kind = "number" -> NatToChars(v.n)
    [] v.kind = "NaN" -> <<"N", "a", "N">>
    [] v.kind = "undefined" -> <<"u", "n", "d", "e", "f", "i", "n", "e", "d">>
    [] v.kind = "null" -> <<"n", "u", "l", "l">>
    [] v.kind = "boolean" ->
         IF v.b THEN <<"t", "r", "u", "e">> ELSE <<"f", "a", "l", "s", "e">>

\* JavaScript truthiness of a value
Truthy(v) ==
  CASE v.kind = "string" -> v.s # <<>>
    [] v.kind = "number" -> v.n # 0
    [] v.kind = "boolean" -> v.b
    [] OTHER -> FALSE

\* a === b
StrictEquals(a, b) == a.kind # "NaN" /\ a = b

\* hay.includes(needle)
Includes(hay, needle) ==
  \E i \in 0..Len(hay) :
    /\ i + Len(needle) <= Len(hay)
    /\ SubSeq(hay, i + 1, i + Len(needle)) = needle

\* the word zod prints for the received type in an invalid_type issue
TypeName(v) ==
  CASE v.kind = "NaN" -> "NaN" [] OTHER -> v.kind

\* ------------------------------------------------------ regular expressions
PatEmpty == <<>>
PatLetters == <<"^", "[", "a", "-", "z", "]", "+", "$">>
PatOpenClass == <<"[">>

\* new RegExp(p) throws a SyntaxError on an unterminated class or group
RegExpThrows(p) ==
  \/ \E i \in 1..Len(p) : p[i] = "[" /\ ~ \E j \in (i + 1)..Len(p) : p[j] = "]"
  \/ \E i \in 1..Len(p) : p[i] = "(" /\ ~ \E j \in (i + 1)..Len(p) : p[j] = ")"

\* pattern.test(chars) for the patterns of the model
RegExpTest(p, chars) ==
  CASE p = PatEmpty -> TRUE
    [] p = PatLetters -> Len(chars) >= 1 /\ \A i \in 1..Len(chars) : chars[i] \in Lower
    [] OTHER -> FALSE

\* /^\d{4}-\d{2}-\d{2}$/.test(chars)
DatePatternTest(chars) ==
  /\ Len(chars) = 10
  /\ \A i \in {1, 2, 3, 4, 6, 7, 9, 10} : chars[i] \in Digits
  /\ chars[5] = "-" /\ chars[8] = "-"

\* ------------------------------------------------------------ error messages
\* A message is a template with its interpolated parts.
Msg(tpl, label, k, text) == [tpl |-> tpl, label |-> label, n |-> k, text |-> text]
RequiredMsg(label) == Msg("{label} is required", label, 0, "")
NotANumberMsg(label) == Msg("{label} must be a number", label, 0, "")
MinValueMsg(k) == Msg("Minimum value is {value}", "", k, "")
MaxValueMsg(k) == Msg("Maximum value is {value}", "", k, "")
MinLengthMsg(k) == Msg("Minimum length is {value}", "", k, "")
MaxLengthMsg(k) == Msg("Maximum length is {value}", "", k, "")
InvalidFormatMsg == Msg("Invalid format", "", 0, "")
InvalidDateMsg == Msg("Invalid date format", "", 0, "")
InvalidTypeMsg(expected, received) ==
  Msg("Invalid input: expected {expected}, received {received}", expected, 0, received)
CustomMsg(text) == Msg("{text}", "", 0, text)

\* rule.message || fallback
MessageOr(text, fallback) == IF text # "" THEN CustomMsg(text) ELSE fallback

\* truthiness of a message string (only a literally empty string is falsy)
MsgTruthy(m) == ~ (m.tpl = "{text}" /\ m.text = "")

\* ---------------------------------------------------------------- schema
\* ValidationRule {type, value?, message?}; message "" stands for absent.
Rule(type, value, message) == [type |-> type, value |-> value, message |-> message]

\* ConditionalRule {field, operator, value}; NoConditional is its absence.
NoConditional == [field |-> "", operator |-> "none", value |-> Undefined]
Conditional(target, operator, value) ==
  [field |-> target, operator |-> operator, value |-> value]

\* FormField; defaultValue Undefined stands for an absent defaultValue.
Field(id, name, label, type, required, defaultValue, validation, conditional) ==
  [id |-> id, name |-> name, label |-> label, type |-> type,
   required |-> required, defaultValue |-> defaultValue,
   validation |-> validation, conditional |-> conditional]

\* ------------------------------------------------------ buildZodSchema
\* A zod check: min/max on numbers, minLength/maxLength/regex/date on
\* strings, and the two refinements of the required wrapper.
Check(kind, k, pattern, message) ==
  [kind |-> kind, n |-> k, pattern |-> pattern, message |-> message]

\* checks one rule adds to z.coerce.number()
NumberRuleChecks(rule) ==
  IF rule.type = "min" /\ rule.value.kind = "number"
  THEN <<Check("min", rule.value.n, <<>>,
                MessageOr(rule.message, MinValueMsg(rule.value.n)))>>
  ELSE IF rule.type = "max" /\ rule.value.kind = "number"
  THEN <<Check("max", rule.value.n, <<>>,
                MessageOr(rule.message, MaxValueMsg(rule.value.n)))>>
  ELSE <<>>

\* checks one rule adds to z.string() in the default branch
StringRuleChecks(rule) ==
  IF rule.type = "regex" /\ rule.value.kind = "string"
  THEN <<Check("regex", 0, rule.value.s,
                MessageOr(rule.message, InvalidFormatMsg))>>
  ELSE IF rule.type = "min" /\ rule.value.kind = "number"
  THEN <<Check("minLength", rule.value.n, <<>>,
                MessageOr(rule.message, MinLengthMsg(rule.value.n)))>>
  ELSE IF rule.type = "max" /\ rule.value.kind = "number"
  THEN <<Check("maxLength", rule.value.n, <<>>,
                MessageOr(rule.message, MaxLengthMsg(rule.value.n)))>>
  ELSE <<>>

RECURSIVE FoldNumberRules(_)
FoldNumberRules(rules) ==
  IF rules = <<>> THEN <<>>
  ELSE NumberRuleChecks(Head(rules)) \o FoldNumberRules(Tail(rules))

RECURSIVE FoldStringRules(_)
FoldStringRules(rules) ==
  IF rules = <<>> THEN <<>>
  ELSE StringRuleChecks(Head(rules)) \o FoldStringRules(Tail(rules))

\* the switch on field.type: base schema and the checks of the rules
BaseChecks(field) ==
  CASE field.type = "number" -> FoldNumberRules(field.validation)
    [] field.type = "checkbox" -> <<>>
    [] field.type = "date" -> <<Check("date", 0, <<>>, InvalidDateMsg)>>
    [] OTHER -> FoldStringRules(field.validation)

BaseKind(field) ==
  CASE field.type = "number" -> "coerceNumber"
    [] field.type = "checkbox" -> "boolean"
    [] OTHER -> "string"

\* the required wrapper: a refinement appended after the rule checks
RequiredChecks(field) ==
  IF field.type = "checkbox"
  THEN <<Check("refineTrue", 0, <<>>, RequiredMsg(field.label))>>
  ELSE <<Check("refineNotEmpty", 0, <<>>, RequiredMsg(field.label))>>

\* new RegExp(rule.value) is evaluated while the schema is built
BuildThrows(field) ==
  /\ field.type \notin {"number", "checkbox", "date"}
  /\ \E i \in 1..Len(field.validation) :
       /\ field.validation[i].type = "regex"
       /\ field.validation[i].value.kind = "string"
       /\ RegExpThrows(field.validation[i].value.s)

BuildZodSchema(field) ==
  [base |-> BaseKind(field),
   label |-> field.label,
   checks |-> BaseChecks(field)
              \o (IF field.required THEN RequiredChecks(field) ELSE <<>>),
   optional |-> ~ field.required]

\* ------------------------------------------------------------ zod parse
\* does the check accept the (already type-checked or coerced) value
CheckPasses(check, v) ==
  CASE check.kind = "min" -> v.n >= check.n
    [] check.kind = "max" -> v.n <= check.n
    [] check.kind = "minLength" -> Len(v.s) >= check.n
    [] check.kind = "maxLength" -> Len(v.s) <= check.n
    [] check.kind = "regex" -> RegExpTest(check.pattern, v.s)
    [] check.kind = "date" -> DatePatternTest(v.s)
    [] check.kind = "refineTrue" -> v = Bool(TRUE)
    [] check.kind = "refineNotEmpty" ->
         v # Str(<<>>) /\ v # Null /\ v # Undefined

\* every check runs; each failing one pushes its issue, in order
RECURSIVE RunChecks(_, _)
RunChecks(checks, v) ==
  IF checks = <<>> THEN <<>>
  ELSE (IF CheckPasses(Head(checks), v) THEN <<>> ELSE <<Head(checks).message>>)
       \o RunChecks(Tail(checks), v)

\* schema.parse(v): the sequence of issue messages, <<>> when valid.
\* A failed type check (or coercion to NaN) aborts the remaining checks.
ZodIssues(zs, v) ==
  IF zs.optional /\ v = Undefined THEN <<>>
  ELSE CASE zs.base = "coerceNumber" ->
              IF ToNumber(v) = NaN THEN <<NotANumberMsg(zs.label)>>
              ELSE RunChecks(zs.checks, ToNumber(v))
         [] zs.base = "boolean" ->
              IF v.kind # "boolean"
              THEN <<InvalidTypeMsg("boolean", TypeName(v))>>
              ELSE RunChecks(zs.checks, v)
         [] zs.base = "string" ->
              IF v.kind # "string"
              THEN <<InvalidTypeMsg("string", TypeName(v))>>
              ELSE RunChecks(zs.checks, v)

\* ------------------------------------------------------- helpers on fields
\* getDefaultValues(fields)[name]: the last field of that name that declares
\* a defaultValue wins; Undefined when the key is absent from the result.
RECURSIVE DefaultFor(_, _)
DefaultFor(fields, name) ==
  IF fields = <<>> THEN Undefined
  ELSE LET last == fields[Len(fields)]
       IN IF last.name = name /\ last.defaultValue # Undefined
          THEN last.defaultValue
          ELSE DefaultFor(SubSeq(fields, 1, Len(fields) - 1), name)

\* (mutant) the receiver of .includes without the String(... || "") wrapper
ContainsReceiver_Raw(targetValue) == targetValue

\* String(targetValue || ""), the receiver of .includes
ContainsReceiver(targetValue) ==
  Str(IF Truthy(targetValue) THEN JsString(targetValue) ELSE <<>>)

\* a call of .includes on the receiver is a TypeError unless it is a string
IncludesThrows(receiver) == receiver.kind # "string"

\* does isFieldVisible(field) throw on a value map
IsFieldVisibleThrows(field, data) ==
  LET c == field.conditional
      targetValue == IF c.field \in DOMAIN data THEN data[c.field] ELSE Undefined
  IN c.operator = "contains" /\ IncludesThrows(ContainsReceiver(targetValue))

\* (mutant) isFieldVisible that compares with == and != (loose equality of
\* the printed values) instead of === and !==
IsFieldVisible_Loose(field, data) ==
  LET c == field.conditional
      targetValue == IF c.field \in DOMAIN data THEN data[c.field] ELSE Undefined
  IN CASE c.operator = "none" -> TRUE
       [] c.operator = "equals" -> JsString(targetValue) = JsString(c.value)
       [] c.operator = "notEquals" -> JsString(targetValue) # JsString(c.value)
       [] c.operator = "contains" ->
            Includes(ContainsReceiver(targetValue).s, JsString(c.value))
       [] c.operator = "greaterThan" ->
            /\ ToNumber(targetValue) # NaN /\ ToNumber(c.value) # NaN
            /\ ToNumber(targetValue).n > ToNumber(c.value).n
       [] c.operator = "lessThan" ->
            /\ ToNumber(targetValue) # NaN /\ ToNumber(c.value) # NaN
            /\ ToNumber(targetValue).n < ToNumber(c.value).n
       [] OTHER -> TRUE

\* isFieldVisible(field) evaluated on a value map
IsFieldVisible(field, data) ==
  LET c == field.conditional
      targetValue == IF c.field \in DOMAIN data THEN data[c.field] ELSE Undefined
  IN CASE c.operator = "none" -> TRUE
       [] c.operator = "equals" -> StrictEquals(targetValue, c.value)
       [] c.operator = "notEquals" -> ~ StrictEquals(targetValue, c.value)
       [] c.operator = "contains" ->
            Includes(ContainsReceiver(targetValue).s, JsString(c.value))
       [] c.operator = "greaterThan" ->
            /\ ToNumber(targetValue) # NaN /\ ToNumber(c.value) # NaN
            /\ ToNumber(targetValue).n > ToNumber(c.value).n
       [] c.operator = "lessThan" ->
            /\ ToNumber(targetValue) # NaN /\ ToNumber(c.value) # NaN
            /\ ToNumber(targetValue).n < ToNumber(c.value).n
       [] OTHER -> TRUE

\* (mutant) a submit that puts every field into schemaShape, hidden or not
VisibleIndices_All(fields, data) == 1..Len(fields)

\* indices of the fields handleSubmit puts into schemaShape
VisibleIndices(fields, data) ==
  {i \in 1..Len(fields) : IsFieldVisible(fields[i], data)}

\* schemaShape[name]: the last visible field of that name overwrites
ShapeIndex(fields, data, name) ==
  LET idx == {i \in VisibleIndices(fields, data) : fields[i].name = name}
  IN CHOOSE i \in idx : \A j \in idx : j <= i

ShapeKeys(fields, data) ==
  {fields[i].name : i \in VisibleIndices(fields, data)}

\* does building schemaShape throw (buildZodSchema is called per visible field)
ShapeThrows(fields, data) ==
  \E i \in VisibleIndices(fields, data) : BuildThrows(fields[i])

\* the issues validationSchema.parse(formData) reports under one key
IssuesFor(fields, data, name) ==
  ZodIssues(BuildZodSchema(fields[ShapeIndex(fields, data, name)]), data[name])

\* the catch block: newErrors[path[0]] = message, later issues overwrite
\* earlier ones and an empty key is skipped
CollectErrors(fields, data) ==
  LET keys == {k \in ShapeKeys(fields, data) :
                 k # "" /\ IssuesFor(fields, data, k) # <<>>}
  IN [k \in keys |->
        LET issues == IssuesFor(fields, data, k) IN issues[Len(issues)]]

\* does validationSchema.parse(formData) throw a ZodError
ParseFails(fields, data) ==
  \E k \in ShapeKeys(fields, data) : IssuesFor(fields, data, k) # <<>>

\* ------------------------------------------------- fields and inputs explored
AgeMin ==
  Field("f1", "age", "Age", "number", TRUE, Undefined,
        <<Rule("min", Num(18), "Must be 18+")>>, NoConditional)
AgePlain ==
  Field("f2", "age", "Age", "number", TRUE, Undefined, <<>>, NoConditional)
NickOptional ==
  Field("f3", "nick", "Nick", "text", FALSE, Str(<<"b", "o", "b">>),
        <<Rule("min", Num(3), "")>>, NoConditional)
NickRequired ==
  Field("f4", "nick", "Nick", "text", TRUE, Undefined,
        <<Rule("regex", Str(PatLetters), ""), Rule("min", Num(3), "")>>,
        NoConditional)
NickBadPattern ==
  Field("f5", "nick", "Nick", "text", FALSE, Undefined,
        <<Rule("regex", Str(PatOpenClass), "")>>, NoConditional)
Agree ==
  Field("f6", "agree", "Agree", "checkbox", TRUE, Undefined, <<>>,
        Conditional("age", "greaterThan", Num(17)))

FieldPool == {AgeMin, AgePlain, NickOptional, NickRequired, NickBadPattern, Agree}
AllNames == {f.name : f \in FieldPool}

\* what the rendered input of a field can hand to handleChange
InputValues(type) ==
  CASE type = "number" -> {Str(<<>>), Str(<<"1", "5">>), Str(<<"2", "1">>)}
    [] type = "checkbox" -> {Bool(TRUE), Bool(FALSE)}
    [] type = "date" ->
         {Str(<<>>), Str(<<"2", "0", "2", "4", "-", "0", "1", "-", "3", "1">>)}
    [] OTHER -> {Str(<<>>), Str(<<"a", "1">>), Str(<<"a", "b", "c">>)}

\* position of a pool field in the one order in which schemas list them
\* (with distinct names no handler of the renderer depends on field order)
PoolRank(f) ==
  CASE f.id = "f1" -> 1 [] f.id = "f2" -> 2 [] f.id = "f3" -> 3
    [] f.id = "f4" -> 4 [] f.id = "f5" -> 5 [] f.id = "f6" -> 6

\* schemas: field sequences with pairwise distinct ids and names
FieldSeqs ==
  UNION {{fs \in [1..k -> FieldPool] :
            \A i, j \in 1..k :
              i < j => (PoolRank(fs[i]) < PoolRank(fs[j]) /\ fs[i].name # fs[j].name)}
         : k \in 0..MaxFields}
Schemas == {[fields |-> fs] : fs \in FieldSeqs}

\* --------------------------------------------------------------- state
VARIABLES
  schema,         \* the schema prop of FormRenderer (App's schema state)
  formData,       \* the value map, Undefined for an absent key
  errors,         \* field name -> message, for the names that have an error
  isSubmitting,
  submitResult,   \* "none" (null), "success" or "failure"
  pending,        \* suspended handleSubmit calls, each with its captured schema
  schemaChanges,  \* number of schema replacements so far
  lastOp,         \* the last handler that ran, with what it observed
  now,            \* Date.now(), in milliseconds since the page was opened
  saved,          \* localStorage item "form-builder-schema"
  exported        \* the last file written by handleExport

vars == <<schema, formData, errors, isSubmitting, submitResult, pending,
          schemaChanges, lastOp, now, saved, exported>>

\* what the handlers of FormRenderer never touch
appVars == <<now, saved, exported>>
\* the state of FormRenderer, which the handlers of App and FieldEditor
\* never touch
rendererVars == <<formData, errors, isSubmitting, submitResult, pending,
                  schemaChanges>>

\* an empty localStorage, no exported file
NoItem == [syntax |-> "none"]

Op(op, name, value, cleared) ==
  [op |-> op, name |-> name, value |-> value, cleared |-> cleared]
SubmitOps == {"submitThrew", "submitInvalid", "submitStarted"}

\* useState(() => getDefaultValues(schema.fields))
InitialFormData(fields) == [n \in AllNames |-> DefaultFor(fields, n)]

Init ==
  /\ schema \in Schemas
  /\ formData = InitialFormData(schema.fields)
  /\ errors = <<>>
  /\ isSubmitting = FALSE
  /\ submitResult = "none"
  /\ pending = <<>>
  /\ schemaChanges = 0
  /\ lastOp = Op("mount", "", Undefined, FALSE)
  /\ now = 0 /\ saved = NoItem /\ exported = NoItem

\* (mutant) handleChange that leaves the error of the edited field in place
HandleChange_KeepError(i, value) ==
  LET name == schema.fields[i].name
  IN /\ formData' = [formData EXCEPT ![name] = value]
     /\ errors' = errors
     /\ submitResult' = "none"
     /\ lastOp' = Op("change", name, value,
                     name \in DOMAIN errors /\ MsgTruthy(errors[name]))
     /\ UNCHANGED <<schema, isSubmitting, pending, schemaChanges, appVars>>

\* handleChange(name, value), called by the input of a rendered field
HandleChange(i, value) ==
  LET name == schema.fields[i].name
      hadError == name \in DOMAIN errors /\ MsgTruthy(errors[name])
  IN /\ formData' = [formData EXCEPT ![name] = value]
     /\ errors' = IF hadError
                  THEN [k \in DOMAIN errors \ {name} |-> errors[k]]
                  ELSE errors
     /\ submitResult' = "none"
     /\ lastOp' = Op("change", name, value, hadError)
     /\ UNCHANGED <<schema, isSubmitting, pending, schemaChanges, appVars>>

\* (mutant) edits made while a submission is in flight are dropped
Change_Deferred ==
  \E i \in 1..Len(schema.fields) :
    /\ IsFieldVisible(schema.fields[i], formData)
    /\ \E value \in InputValues(schema.fields[i].type) :
         IF isSubmitting
         THEN /\ lastOp' = Op("change", schema.fields[i].name, value, FALSE)
              /\ UNCHANGED <<schema, formData, errors, isSubmitting,
                             submitResult, pending, schemaChanges, appVars>>
         ELSE HandleChange(i, value)

\* an input of a rendered (visible) field fires its onChange
Change ==
  \E i \in 1..Len(schema.fields) :
    /\ IsFieldVisible(schema.fields[i], formData)
    /\ \E value \in InputValues(schema.fields[i].type) : HandleChange(i, value)

\* (mutant) a submit control that is never disabled
SubmitEnabled_Always == TRUE

\* the submit button is disabled while isSubmitting
SubmitEnabled == ~ isSubmitting

\* handleSubmit up to its await (or to its end when validation fails)
HandleSubmit ==
  /\ SubmitEnabled
  /\ submitResult' = "none"
  /\ IF ShapeThrows(schema.fields, formData)
     THEN /\ lastOp' = Op("submitThrew", "", Undefined, FALSE)
          /\ UNCHANGED <<errors, isSubmitting, pending>>
     ELSE IF ParseFails(schema.fields, formData)
     THEN /\ errors' = CollectErrors(schema.fields, formData)
          /\ isSubmitting' = FALSE
          /\ lastOp' = Op("submitInvalid", "", Undefined, FALSE)
          /\ UNCHANGED pending
     ELSE /\ errors' = <<>>
          /\ isSubmitting' = TRUE
          /\ pending' = Append(pending, schema)
          /\ lastOp' = Op("submitStarted", "", Undefined, FALSE)
  /\ UNCHANGED <<schema, formData, schemaChanges, appVars>>

\* (mutant) a continuation without the finally block: isSubmitting is
\* reset on the success path only
Settle_NoFinally(success) ==
  /\ pending # <<>>
  /\ submitResult' = IF success THEN "success" ELSE "failure"
  /\ formData' = IF success THEN InitialFormData(Head(pending).fields)
                 ELSE formData
  /\ isSubmitting' = IF success THEN FALSE ELSE isSubmitting
  /\ pending' = Tail(pending)
  /\ lastOp' = Op(IF success THEN "settledSuccess" ELSE "settledFailure", "",
                Undefined, FALSE)
  /\ UNCHANGED <<schema, errors, schemaChanges, appVars>>

\* the rest of handleSubmit after await submitForm() resolves
Settle(success) ==
  /\ pending # <<>>
  /\ submitResult' = IF success THEN "success" ELSE "failure"
  /\ formData' = IF success THEN InitialFormData(Head(pending).fields)
                 ELSE formData
  /\ isSubmitting' = FALSE
  /\ pending' = Tail(pending)
  /\ lastOp' = Op(IF success THEN "settledSuccess" ELSE "settledFailure", "",
                Undefined, FALSE)
  /\ UNCHANGED <<schema, errors, schemaChanges, appVars>>

SettleSuccess == Settle(TRUE)
SettleFailure == Settle(FALSE)

\* setSchema(next) in App, then FormRenderer's effect on [schema]
ReplaceSchema ==
  /\ schemaChanges < MaxSchemaChanges
  /\ \E next \in Schemas :
       /\ schema' = next
       /\ formData' = [n \in AllNames |->
                         IF DefaultFor(next.fields, n) # Undefined
                         THEN DefaultFor(next.fields, n) ELSE formData[n]]
  /\ schemaChanges' = schemaChanges + 1
  /\ lastOp' = Op("schema", "", Undefined, FALSE)
  /\ UNCHANGED <<errors, isSubmitting, submitResult, pending, appVars>>

Next == Change \/ HandleSubmit \/ SettleSuccess \/ SettleFailure \/ ReplaceSchema

Spec == Init /\ [][Next]_vars

\* submitForm resolves one second after it is called (setTimeout inside a
\* promise that cannot reject), so a suspended handleSubmit is resumed
SpecLive == Spec /\ WF_vars(SettleSuccess \/ SettleFailure)

\* ------------------------------------ isFieldVisible on its whole domain
\* the operators of ConditionalRule, the comparands a schema can carry (any
\* JSON scalar) and the values a value map can hold under the target name
VisOperators == {"equals", "notEquals", "contains", "greaterThan", "lessThan"}
VisComparands ==
  {Str(<<>>), Str(<<"2", "1">>), Str(<<"a", "1">>), Num(0), Num(18), Num(21),
   Bool(TRUE), Bool(FALSE), Null}
VisTargets ==
  {Undefined, Null, Str(<<>>), Str(<<"1", "5">>), Str(<<"2", "1">>),
   Str(<<"a", "1">>), Num(21), Bool(TRUE), Bool(FALSE)}
VisTargetNames == {"age", "ghost"}
VisConditionals ==
  {NoConditional} \cup
  {Conditional(t, o, v) : t \in VisTargetNames, o \in VisOperators,
                          v \in VisComparands}

\* a mounted form with one dependent field, on any value of the target
InitVisible ==
  /\ schema \in {[fields |-> <<Field("v1", "nick", "Nick", "text", FALSE,
                                      Undefined, <<>>, c)>>] :
                   c \in VisConditionals}
  /\ formData \in {[n \in AllNames |-> IF n = "age" THEN v ELSE Undefined] :
                     v \in VisTargets}
  /\ errors = <<>>
  /\ isSubmitting = FALSE
  /\ submitResult = "none"
  /\ pending = <<>>
  /\ schemaChanges = 0
  /\ lastOp = Op("mount", "", Undefined, FALSE)
  /\ now = 0 /\ saved = NoItem /\ exported = NoItem

\* renderField(field) up to its visibility test; the observed value is the
\* boolean isFieldVisible returned, or undefined when it threw
RenderField ==
  \E i \in 1..Len(schema.fields) :
    LET f == schema.fields[i]
    IN /\ lastOp' = Op("render", f.name,
                       IF IsFieldVisibleThrows(f, formData) THEN Undefined
                       ELSE Bool(IsFieldVisible(f, formData)),
                       FALSE)
       /\ UNCHANGED <<schema, formData, errors, isSubmitting, submitResult,
                      pending, schemaChanges, appVars>>

NextVisible == RenderField

SpecVisible == InitVisible /\ [][NextVisible]_vars

\* ------------------------------------------- one field and its validator
\* fields whose rules outlived a change of type to select, radio or
\* checkbox, and a date field with the rules the rule editor offers for it
PlanSelect ==
  Field("v2", "nick", "Plan", "select", FALSE, Undefined,
        <<Rule("regex", Str(PatLetters), "")>>, NoConditional)
ColorRadio ==
  Field("v3", "nick", "Color", "radio", TRUE, Undefined,
        <<Rule("min", Num(3), "")>>, NoConditional)
AgreeRules ==
  Field("v4", "agree", "Agree", "checkbox", TRUE, Undefined,
        <<Rule("min", Num(1), "")>>, NoConditional)
BornDate ==
  Field("v5", "nick", "Born", "date", FALSE, Undefined,
        <<Rule("min", Num(11), ""), Rule("regex", Str(PatLetters), "")>>,
        NoConditional)

NoteArea ==
  Field("v6", "nick", "Note", "textarea", FALSE, Undefined,
        <<Rule("max", Num(2), "")>>, NoConditional)

\* ValidationEditor, onChange of a rule's value input: the text is stored as
\* it is for a regex rule and for every rule of a text or textarea field,
\* and as Number(text) otherwise
RuleValueInput(ruleType, fieldType, text) ==
  IF ruleType = "regex" \/ fieldType \in {"text", "textarea"}
  THEN Str(text) ELSE ToNumber(Str(text))

\* ConditionalEditor, onChange of the comparand input: a boolean for a
\* checkbox target, Number(text) for a number target, the text otherwise
ConditionValueInput(targetType, text) ==
  CASE targetType = "checkbox" -> Bool(text = <<"t", "r", "u", "e">>)
    [] targetType = "number" -> ToNumber(Str(text))
    [] OTHER -> Str(text)

\* a text field with a Min Length rule entered in the rule editor
NameMin ==
  Field("v7", "nick", "Name", "text", FALSE, Undefined,
        <<Rule("min", RuleValueInput("min", "text", <<"3">>), "")>>,
        NoConditional)

\* a field shown when the number field age equals 21, as the conditional
\* editor stores that condition
Adult ==
  Field("v8", "nick", "Adult", "text", FALSE, Undefined, <<>>,
        Conditional("age", "equals", ConditionValueInput("number", <<"2", "1">>)))

ValidatePool ==
  {PlanSelect, ColorRadio, AgreeRules, BornDate, NoteArea, NameMin,
   NickRequired, AgeMin}

ValidateSchemas ==
  {[fields |-> <<f>>] : f \in ValidatePool} \cup {[fields |-> <<AgePlain, Adult>>]}

\* a mounted form whose schema is one of ValidateSchemas
InitValidate ==
  /\ schema \in ValidateSchemas
  /\ formData = InitialFormData(schema.fields)
  /\ errors = <<>>
  /\ isSubmitting = FALSE
  /\ submitResult = "none"
  /\ pending = <<>>
  /\ schemaChanges = 0
  /\ lastOp = Op("mount", "", Undefined, FALSE)
  /\ now = 0 /\ saved = NoItem /\ exported = NoItem

NextValidate == Change \/ HandleSubmit \/ SettleSuccess \/ SettleFailure

SpecValidate == InitValidate /\ [][NextValidate]_vars

\* ------------------------------------------------ App and FieldEditor
\* In App the schema is whatever JSON.parse or the editor produced: objects
\* and arrays are tagged values, an object holds its own keys only.
Obj(props) == [kind |-> "object", props |-> props]
Arr(items) == [kind |-> "array", items |-> items]

\* o[k] (undefined for a key the object does not have, and for a non-object)
Get(o, k) ==
  IF o.kind = "object" /\ k \in DOMAIN o.props THEN o.props[k] ELSE Undefined

\* {...o, [k]: v}
Spread(o, k, v) ==
  Obj([x \in DOMAIN o.props \cup {k} |-> IF x = k THEN v ELSE o.props[x]])

\* text.split(sep)
RECURSIVE Split(_, _)
Split(chars, sep) ==
  IF \A i \in 1..Len(chars) : chars[i] # sep THEN <<chars>>
  ELSE LET i == CHOOSE i \in 1..Len(chars) :
                  chars[i] = sep /\ \A j \in 1..(i - 1) : chars[j] # sep
       IN <<SubSeq(chars, 1, i - 1)>>
          \o Split(SubSeq(chars, i + 1, Len(chars)), sep)

\* parts.join(sep)
RECURSIVE Join(_, _)
Join(parts, sep) ==
  IF parts = <<>> THEN <<>>
  ELSE IF Len(parts) = 1 THEN parts[1]
  ELSE parts[1] \o <<sep>> \o Join(Tail(parts), sep)

\* line.trim()
RECURSIVE Trim(_)
Trim(chars) ==
  IF chars # <<>> /\ Head(chars) \in {" ", "\n"} THEN Trim(Tail(chars))
  ELSE IF chars # <<>> /\ chars[Len(chars)] \in {" ", "\n"}
  THEN Trim(SubSeq(chars, 1, Len(chars) - 1))
  ELSE chars

\* a || b || c on strings
FirstNonEmpty(a, b, c) == IF a # <<>> THEN a ELSE IF b # <<>> THEN b ELSE c

\* the option one non-blank line of the options text stands for
ParseOptionLine(line) ==
  LET trimmed == Trim(line)
  IN IF \E i \in 1..Len(trimmed) : trimmed[i] = ":"
     THEN LET parts == Split(trimmed, ":")
              label == Trim(parts[1])
              value == Trim(Join(Tail(parts), ":"))
          IN Obj([label |-> Str(FirstNonEmpty(label, value, trimmed)),
                  value |-> Str(FirstNonEmpty(value, label, trimmed))])
     ELSE Obj([label |-> Str(trimmed), value |-> Str(trimmed)])

NonBlank(line) == Trim(line) # <<>>

\* the options the textarea's onChange stores for a text
ParseOptions(text) ==
  LET lines == SelectSeq(Split(text, "\n"), NonBlank)
  IN Arr([i \in 1..Len(lines) |-> ParseOptionLine(lines[i])])

\* DEFAULT_SCHEMA
DefaultSchema ==
  Obj([title |-> Str(<<"My Custom Form">>),
       description |-> Str(<<"Build your form by adding fields on the left">>),
       fields |-> Arr(<<>>)])

\* a select field with two options, as a saved or imported schema carries
\* it; it was created before the page was opened
ImportedSelect ==
  Obj([id |-> Str(<<"field-", "earlier">>), name |-> Str(<<"plan">>),
       label |-> Str(<<"Plan">>), type |-> Str(<<"select">>),
       required |-> Bool(FALSE),
       options |-> Arr(<<Obj([label |-> Str(<<"A">>), value |-> Str(<<"a">>)]),
                         Obj([label |-> Str(<<"B">>), value |-> Str(<<"b">>)])>>)])

ImportedSchema ==
  Obj([title |-> Str(<<"Plans">>), fields |-> Arr(<<ImportedSelect>>)])

\* schema.fields as a sequence
Fields == Get(schema, "fields").items

\* field.type ("" when the field has no type string)
TypeOf(field) ==
  IF Get(field, "type").kind = "string" /\ Get(field, "type").s # <<>>
  THEN Get(field, "type").s[1] ELSE ""

HasOptionsType(type) == type \in {"select", "radio"}

\* a render that throws unmounts the app: FieldEditor calls fields.map, and
\* the expanded editor of a select or radio field calls field.options.map
Crashed ==
  \/ Get(schema, "fields").kind # "array"
  \/ \E i \in 1..Len(Fields) :
       HasOptionsType(TypeOf(Fields[i])) /\ Get(Fields[i], "options").kind # "array"

\* onChange of FieldEditor: setSchema({...schema, fields})
SetFields(fields) == schema' = Spread(schema, "fields", Arr(fields))

\* updateField(index, updatedField)
UpdateField(i, updatedField) ==
  SetFields([Fields EXCEPT ![i] = updatedField])

\* texts of the options textarea: every text of at most MaxTextLen characters
MaxTextLen == 4
OptionAlphabet == {"a", ":", " ", "\n"}
OptionTexts == UNION {[1..k -> OptionAlphabet] : k \in 0..MaxTextLen}

\* the options textarea's onChange, for a text out of texts
EditOptionsFrom(texts) ==
  /\ ~ Crashed
  /\ \E i \in 1..Len(Fields) :
       /\ HasOptionsType(TypeOf(Fields[i]))
       /\ \E text \in texts :
            /\ UpdateField(i, Spread(Fields[i], "options", ParseOptions(text)))
            /\ lastOp' = Op("options", Get(Fields[i], "id").s, Str(text), FALSE)
  /\ UNCHANGED <<rendererVars, appVars>>

EditOptions == EditOptionsFrom(OptionTexts)

\* the editor of a loaded schema with one select field
InitOptions ==
  /\ schema = ImportedSchema
  /\ formData = InitialFormData(<<>>)
  /\ errors = <<>>
  /\ isSubmitting = FALSE
  /\ submitResult = "none"
  /\ pending = <<>>
  /\ schemaChanges = 0
  /\ lastOp = Op("mount", "", Undefined, FALSE)
  /\ now = 0 /\ saved = NoItem /\ exported = NoItem

NextOptions == EditOptions

SpecOptions == InitOptions /\ [][NextOptions]_vars

\* --------------------------------------------------------- FieldEditor
MaxNow == 1   \* milliseconds of clock explored

FieldTypes ==
  {"text", "textarea", "number", "select", "radio", "checkbox", "date"}

\* the types picked in the type select while the editor is explored
\* (textarea and date are edited like text, radio like select)
EditorTypes == {"text", "number", "select"}

\* time passes between two events
Tick ==
  /\ now < MaxNow
  /\ now' = now + 1
  /\ UNCHANGED <<schema, rendererVars, lastOp, saved, exported>>

\* addField
AddField ==
  /\ ~ Crashed
  /\ Len(Fields) < MaxFields
  /\ LET k == NatToChars(Len(Fields) + 1)
         newField == Obj([id |-> Str(<<"field-">> \o NatToChars(now)),
                          name |-> Str(<<"field_">> \o k),
                          label |-> Str(<<"Field ">> \o k),
                          type |-> Str(<<"text">>),
                          required |-> Bool(FALSE)])
     IN /\ SetFields(Append(Fields, newField))
        /\ lastOp' = Op("add", newField.props.id.s, Undefined, FALSE)
  /\ UNCHANGED <<rendererVars, appVars>>

\* deleteField(index)
DeleteField ==
  /\ ~ Crashed
  /\ \E i \in 1..Len(Fields) :
       /\ SetFields(SubSeq(Fields, 1, i - 1) \o SubSeq(Fields, i + 1, Len(Fields)))
       /\ lastOp' = Op("delete", Get(Fields[i], "id").s, Undefined, FALSE)
  /\ UNCHANGED <<rendererVars, appVars>>

\* the field the type select's onChange rebuilds
BaseField(field, newType) ==
  Obj([id |-> Get(field, "id"),
       name |-> Get(field, "name"),
       label |-> Get(field, "label"),
       type |-> Str(<<newType>>),
       helpText |-> Get(field, "helpText"),
       required |-> Get(field, "required"),
       validation |-> Get(field, "validation"),
       conditional |-> Get(field, "conditional")])

\* onChange of the type select; leaving select/radio asks for confirmation
ChangeType ==
  /\ ~ Crashed
  /\ \E i \in 1..Len(Fields), newType \in EditorTypes, confirmed \in BOOLEAN :
       LET field == Fields[i]
           asks == HasOptionsType(TypeOf(field)) /\ ~ HasOptionsType(newType)
       IN /\ newType # TypeOf(field)
          /\ IF asks /\ ~ confirmed
             THEN /\ lastOp' = Op("typeKept", Get(field, "id").s, Undefined, FALSE)
                  /\ UNCHANGED schema
             ELSE /\ UpdateField(i, BaseField(field, newType))
                  /\ lastOp' = Op("type", Get(field, "id").s, Str(<<newType>>), FALSE)
  /\ UNCHANGED <<rendererVars, appVars>>

\* what the default value control of a field can hand over
DefaultInputs(field) ==
  CASE TypeOf(field) = "checkbox" -> {Bool(TRUE), Bool(FALSE)}
    [] HasOptionsType(TypeOf(field)) ->
         {Str(<<>>)} \cup
         {Get(Get(field, "options").items[k], "value") :
            k \in 1..Len(Get(field, "options").items)}
    [] TypeOf(field) = "number" -> {Undefined, Num(21)}
    [] OTHER -> {Str(<<"a", "b", "c">>)}

\* onChange of the default value control
EditDefault ==
  /\ ~ Crashed
  /\ \E i \in 1..Len(Fields) :
       \E value \in DefaultInputs(Fields[i]) :
         /\ UpdateField(i, Spread(Fields[i], "defaultValue", value))
         /\ lastOp' = Op("default", Get(Fields[i], "id").s, value, FALSE)
  /\ UNCHANGED <<rendererVars, appVars>>

\* fields.findIndex((f) => f.id === id)
FindIndex(fields, id) ==
  CHOOSE i \in 1..Len(fields) :
    Get(fields[i], "id") = id /\ \A j \in 1..(i - 1) : Get(fields[j], "id") # id

\* arrayMove(fields, from, to)
ArrayMove(fields, from, to) ==
  LET rest == SubSeq(fields, 1, from - 1) \o SubSeq(fields, from + 1, Len(fields))
  IN SubSeq(rest, 1, to - 1) \o <<fields[from]>> \o SubSeq(rest, to, Len(rest))

\* handleDragEnd: the item a was dropped over the item o
HandleDragEnd ==
  /\ ~ Crashed
  /\ \E a, o \in 1..Len(Fields) :
       LET activeId == Get(Fields[a], "id")
           overId == Get(Fields[o], "id")
       IN /\ activeId # overId
          /\ SetFields(ArrayMove(Fields, FindIndex(Fields, activeId),
                                  FindIndex(Fields, overId)))
          /\ lastOp' = Op("reorder", activeId.s, Undefined, FALSE)
  /\ UNCHANGED <<rendererVars, appVars>>

\* the editor on the default schema or on a loaded one
InitEditor ==
  /\ schema \in {DefaultSchema, ImportedSchema}
  /\ formData = InitialFormData(<<>>)
  /\ errors = <<>>
  /\ isSubmitting = FALSE
  /\ submitResult = "none"
  /\ pending = <<>>
  /\ schemaChanges = 0
  /\ lastOp = Op("mount", "", Undefined, FALSE)
  /\ now = 0 /\ saved = NoItem /\ exported = NoItem

\* the option texts typed while other editor operations are explored
EditorOptionTexts == {<<>>, <<"a", ":", "a">>}

EditOptionsInEditor == EditOptionsFrom(EditorOptionTexts)

NextEditor ==
  \/ Tick \/ AddField \/ DeleteField \/ ChangeType \/ EditDefault
  \/ EditOptionsInEditor \/ HandleDragEnd

SpecEditor == InitEditor /\ [][NextEditor]_vars

\* ------------------------------------------- App: save, load, export, import
\* A text is unparseable, or it is the JSON document of a value.
JsonText(doc) == [syntax |-> "json", doc |-> doc]
Garbage == [syntax |-> "garbage"]

\* the value JSON.stringify writes for v: a key whose value is undefined is
\* left out, undefined in an array and NaN become null
RECURSIVE JsonDoc(_)
JsonDoc(v) ==
  CASE v.kind = "object" ->
         Obj([k \in {x \in DOMAIN v.props : v.props[x].kind # "undefined"} |->
                JsonDoc(v.props[k])])
    [] v.kind = "array" ->
         Arr([i \in 1..Len(v.items) |->
                IF v.items[i].kind = "undefined" THEN Null
                ELSE JsonDoc(v.items[i])])
    [] v.kind = "NaN" -> Null
    [] OTHER -> v

\* JSON.stringify(v)
JsonStringify(v) == JsonText(JsonDoc(v))

\* JSON.parse(text) throws a SyntaxError unless the text is JSON
JsonParseThrows(text) == text.syntax # "json"
JsonParse(text) == text.doc

\* is the value a FormSchema (title, fields; every field with id, name,
\* label, a type of the closed set, and options when select or radio)
IsFormSchema(v) ==
  /\ v.kind = "object"
  /\ Get(v, "title").kind = "string"
  /\ Get(v, "fields").kind = "array"
  /\ \A i \in 1..Len(Get(v, "fields").items) :
       LET f == Get(v, "fields").items[i]
       IN /\ f.kind = "object"
          /\ Get(f, "id").kind = "string"
          /\ Get(f, "name").kind = "string"
          /\ Get(f, "label").kind = "string"
          /\ TypeOf(f) \in FieldTypes
          /\ (HasOptionsType(TypeOf(f)) => Get(f, "options").kind = "array")

\* loadSchema() on the localStorage item
LoadSchema(item) ==
  IF item.syntax # "none" /\ ~ JsonParseThrows(item)
  THEN JsonParse(item) ELSE DefaultSchema

\* JSON documents that are not a FormSchema
NoFieldsDoc == Obj([title |-> Str(<<"Plans">>)])
BadTypeDoc ==
  Obj([title |-> Str(<<"Plans">>),
       fields |-> Arr(<<Obj([id |-> Str(<<"field-", "earlier">>),
                             name |-> Str(<<"plan">>), label |-> Str(<<"Plan">>),
                             type |-> Str(<<"slider">>)])>>)])
NoOptionsDoc ==
  Obj([title |-> Str(<<"Plans">>),
       fields |-> Arr(<<Obj([id |-> Str(<<"field-", "earlier">>),
                             name |-> Str(<<"plan">>), label |-> Str(<<"Plan">>),
                             type |-> Str(<<"select">>)])>>)])

\* what localStorage or a chosen file can hold
ForeignTexts ==
  {Garbage, JsonText(Null), JsonText(NoFieldsDoc), JsonText(BadTypeDoc),
   JsonText(NoOptionsDoc), JsonText(ImportedSchema)}

\* handleSave
HandleSave ==
  /\ ~ Crashed
  /\ saved' = JsonStringify(schema)
  /\ lastOp' = Op("save", "", Undefined, FALSE)
  /\ UNCHANGED <<schema, rendererVars, now, exported>>

\* handleLoad: loadSchema returns DEFAULT_SCHEMA itself when there is
\* nothing it can parse, and a new object otherwise
HandleLoad ==
  /\ ~ Crashed
  /\ IF saved.syntax # "none" /\ ~ JsonParseThrows(saved)
     THEN /\ schema' = LoadSchema(saved)
          /\ lastOp' = Op("load", "", Undefined, FALSE)
     ELSE /\ lastOp' = Op("loadNone", "", Undefined, FALSE)
          /\ UNCHANGED schema
  /\ UNCHANGED <<rendererVars, appVars>>

\* handleReset, confirmed
HandleReset ==
  /\ ~ Crashed
  /\ schema' = DefaultSchema
  /\ saved' = NoItem
  /\ lastOp' = Op("reset", "", Undefined, FALSE)
  /\ UNCHANGED <<rendererVars, now, exported>>

\* handleExport
HandleExport ==
  /\ ~ Crashed
  /\ exported' = JsonStringify(schema)
  /\ lastOp' = Op("export", "", Undefined, FALSE)
  /\ UNCHANGED <<schema, rendererVars, now, saved>>

\* (mutant) an import that appends the imported fields to the current ones
HandleImport_Append ==
  /\ ~ Crashed
  /\ \E file \in ForeignTexts \cup ({exported} \ {NoItem}) :
       LET origin == IF file = exported THEN "exported" ELSE "foreign"
       IN IF JsonParseThrows(file)
          THEN /\ lastOp' = Op("importFailed", origin, Undefined, FALSE)
               /\ UNCHANGED schema
          ELSE /\ schema' =
                    IF Get(JsonParse(file), "fields").kind = "array"
                    THEN Spread(JsonParse(file), "fields",
                                Arr(Fields \o Get(JsonParse(file), "fields").items))
                    ELSE JsonParse(file)
               /\ lastOp' = Op("import", origin, Undefined, FALSE)
  /\ UNCHANGED <<rendererVars, appVars>>

\* handleImport with the chosen file read: the file last exported, or a
\* file from elsewhere
HandleImport ==
  /\ ~ Crashed
  /\ \E file \in ForeignTexts \cup ({exported} \ {NoItem}) :
       LET origin == IF file = exported THEN "exported" ELSE "foreign"
       IN IF JsonParseThrows(file)
          THEN /\ lastOp' = Op("importFailed", origin, Undefined, FALSE)
               /\ UNCHANGED schema
          ELSE /\ schema' = JsonParse(file)
               /\ lastOp' = Op("import", origin, Undefined, FALSE)
  /\ UNCHANGED <<rendererVars, appVars>>

\* App mounted on whatever localStorage holds: useState(loadSchema)
InitPersist ==
  /\ saved \in ForeignTexts \cup {NoItem}
  /\ schema = LoadSchema(saved)
  /\ formData = InitialFormData(<<>>)
  /\ errors = <<>>
  /\ isSubmitting = FALSE
  /\ submitResult = "none"
  /\ pending = <<>>
  /\ schemaChanges = 0
  /\ lastOp = Op("mount", "", Undefined, FALSE)
  /\ now = 0 /\ exported = NoItem

NextPersist ==
  AddField \/ ChangeType \/ HandleSave \/ HandleLoad \/ HandleReset

SpecPersist == InitPersist /\ [][NextPersist]_vars

\* App on the default schema, with the editor, export and import
InitTransfer ==
  /\ schema = DefaultSchema
  /\ formData = InitialFormData(<<>>)
  /\ errors = <<>>
  /\ isSubmitting = FALSE
  /\ submitResult = "none"
  /\ pending = <<>>
  /\ schemaChanges = 0
  /\ lastOp = Op("mount", "", Undefined, FALSE)
  /\ now = 0 /\ saved = NoItem /\ exported = NoItem

NextTransfer == AddField \/ ChangeType \/ HandleExport \/ HandleImport

SpecTransfer == InitTransfer /\ [][NextTransfer]_vars

\* ------------------------------------------------------------ properties
\* the fields handleSubmit validates: those visible on the value map
ActiveFields == {schema.fields[i] : i \in VisibleIndices(schema.fields, formData)}

\* a field's current value does not pass its validator (a validator that
\* cannot be built accepts nothing)
FieldInvalid(f) ==
  BuildThrows(f) \/ ZodIssues(BuildZodSchema(f), formData[f.name]) # <<>>

InvalidActiveNames == {f.name : f \in {g \in ActiveFields : FieldInvalid(g)}}

\* the last handler was a submit attempt that ran its validation pass
Validated == lastOp.op \in {"submitInvalid", "submitStarted"}

\* C1: while a submission is in flight (isSubmitting) no step is a submit
\* attempt and no further call of the submit collaborator is started; an
\* in-flight call always has isSubmitting set, and at most one call is
\* outstanding.
C1_NoDoubleSubmit ==
  [][/\ (pending # <<>> => isSubmitting)
     /\ (isSubmitting =>
           /\ lastOp'.op \notin SubmitOps
           /\ pending' \in {pending, Tail(pending)})
     /\ Len(pending') <= 1]_vars

\* a submission is in flight, the form stays live (an edit was just applied)
\* and still exactly one call is outstanding
C1_Witness ==
  isSubmitting /\ Len(pending) = 1 /\ lastOp.op = "change"

\* C2: a schema change keeps every value that is present in the value map
\* and seeds the default only under names that had no value.
C2_SchemaChangeKeepsValues ==
  [][schemaChanges' # schemaChanges =>
       \A n \in AllNames :
         IF formData[n] # Undefined
         THEN formData'[n] = formData[n]
         ELSE formData'[n] = DefaultFor(schema'.fields, n)]_vars

\* C3: after a submit attempt the keys of errors are exactly the names of
\* the active fields whose value is invalid, the submit collaborator is
\* called iff there is none, and otherwise the form is not submitting.
C3_ErrorsAreInvalidActive ==
  lastOp.op \in SubmitOps =>
    /\ DOMAIN errors = InvalidActiveNames
    /\ (lastOp.op = "submitStarted" <=> InvalidActiveNames = {})
    /\ (InvalidActiveNames # {} => ~ isSubmitting /\ pending = <<>>)

\* C4: a settle with success leaves the value map of a form freshly mounted
\* with the schema; a settle with failure leaves the value map and the
\* field errors as they were and records the failure as the form result;
\* either way the form can be submitted again.
C4_SettleOutcome ==
  [][Len(pending') < Len(pending) =>
       /\ ~ isSubmitting'
       /\ (submitResult' = "success" =>
             formData' = InitialFormData(schema'.fields))
       /\ (submitResult' = "failure" =>
             formData' = formData /\ errors' = errors)
       /\ submitResult' \in {"success", "failure"}]_vars

\* C5: an edit outside Submitting stores the value under the name, removes
\* the error of that name, clears the result banner and leaves the values
\* and the errors of all other names as they were.
C5_EditFrame ==
  [][(~ isSubmitting /\ lastOp'.op = "change") =>
       LET n == lastOp'.name
       IN /\ formData' = [formData EXCEPT ![n] = lastOp'.value]
          /\ DOMAIN errors' = DOMAIN errors \ {n}
          /\ \A k \in DOMAIN errors' : errors'[k] = errors[k]
          /\ submitResult' = "none"]_vars

\* an edit has just removed the error of its field while the error of
\* another field is still shown
C5_Witness ==
  /\ lastOp.op = "change" /\ lastOp.cleared /\ ~ isSubmitting
  /\ DOMAIN errors # {} /\ lastOp.name \notin DOMAIN errors
  /\ formData[lastOp.name] = lastOp.value

\* C6: after a validation pass every active required field whose value is
\* the empty string carries the required message.
C6_PresenceBeforeShape ==
  Validated =>
    \A f \in ActiveFields :
      (f.required /\ formData[f.name] = Str(<<>>)) =>
        (f.name \in DOMAIN errors /\ errors[f.name] = RequiredMsg(f.label))

\* C7: after a validation pass no active optional field whose value is
\* empty (the empty string or undefined) has an error.
C7_OptionalEmptyPasses ==
  Validated =>
    \A f \in ActiveFields :
      (~ f.required /\ formData[f.name] \in {Str(<<>>), Undefined}) =>
        f.name \notin DOMAIN errors

\* C8: after a validation pass an active required number field whose value
\* is the empty string fails with the required message (it is not read as 0).
C8_EmptyNumberIsNoValue ==
  Validated =>
    \A f \in ActiveFields :
      (f.type = "number" /\ f.required /\ formData[f.name] = Str(<<>>)) =>
        /\ lastOp.op = "submitInvalid"
        /\ f.name \in DOMAIN errors
        /\ errors[f.name] = RequiredMsg(f.label)

\* C9: after a validation pass an active required field whose value is
\* undefined, null or (checkbox) false is rejected with exactly the
\* required message.
C9_AbsentIsRequired ==
  Validated =>
    \A f \in ActiveFields :
      (/\ f.required
       /\ \/ formData[f.name] \in {Undefined, Null}
          \/ (f.type = "checkbox" /\ formData[f.name] = Bool(FALSE))) =>
        /\ lastOp.op = "submitInvalid"
        /\ f.name \in DOMAIN errors
        /\ errors[f.name] = RequiredMsg(f.label)

\* C10: a submit attempt never throws; an active field with a malformed
\* pattern is reported with "Invalid format" and every other invalid active
\* field has its own error entry.
C10_MalformedPatternIsInvalid ==
  lastOp.op \in SubmitOps =>
    /\ lastOp.op # "submitThrew"
    /\ \A f \in ActiveFields :
         /\ BuildThrows(f) =>
              (f.name \in DOMAIN errors /\ errors[f.name] = InvalidFormatMsg)
         /\ FieldInvalid(f) => f.name \in DOMAIN errors

\* C11: a conditional whose target name is the name of no field of the
\* current schema is evaluated with undefined as its target value, so the
\* dependent field is shown exactly when it would be shown on a value map
\* that has no entry under that name.
C11_DanglingTargetIsUndefined ==
  \A i \in 1..Len(schema.fields) :
    LET f == schema.fields[i]
        c == f.conditional
    IN (/\ c.operator # "none"
        /\ \A j \in 1..Len(schema.fields) : schema.fields[j].name # c.field) =>
         IsFieldVisible(f, formData) =
           IsFieldVisible(f, [n \in AllNames |->
                                IF n = c.field THEN Undefined ELSE formData[n]])

\* C12: a validation pass leaves no error entry under the name of a hidden
\* field, and the submit collaborator is called iff every shown field is
\* valid, whatever the hidden fields require and hold.
C12_HiddenFieldsNotValidated ==
  Validated =>
    LET shown == {i \in 1..Len(schema.fields) :
                    IsFieldVisible(schema.fields[i], formData)}
        hidden == (1..Len(schema.fields)) \ shown
    IN /\ \A i \in hidden :
            (\A j \in shown : schema.fields[j].name # schema.fields[i].name) =>
              schema.fields[i].name \notin DOMAIN errors
       /\ (lastOp.op = "submitStarted" <=>
             \A j \in shown : ~ FieldInvalid(schema.fields[j]))

\* a submission was started although a hidden required field holds a value
\* its validator would reject
C12_Witness ==
  /\ lastOp.op = "submitStarted"
  /\ \E i \in 1..Len(schema.fields) :
       /\ ~ IsFieldVisible(schema.fields[i], formData)
       /\ schema.fields[i].required
       /\ FieldInvalid(schema.fields[i])

\* C13: for greaterThan and lessThan the render of the dependent field sees
\* false whenever the target value is not numeric (undefined, the empty
\* string, null, a boolean or text that is not a number), and the result of
\* the numeric comparison otherwise.
C13_NonNumericTargetIsFalse ==
  lastOp.op = "render" =>
    LET c == schema.fields[1].conditional
        t == IF c.field \in DOMAIN formData THEN formData[c.field] ELSE Undefined
        nonNumeric == \/ t.kind \in {"undefined", "null", "boolean"}
                      \/ (t.kind = "string" /\ (t.s = <<>> \/ ~ IsDigits(t.s)))
        tn == IF t.kind = "number" THEN t.n ELSE DigitsValue(t.s)
        cmp == /\ ToNumber(c.value) # NaN
               /\ IF c.operator = "greaterThan" THEN tn > ToNumber(c.value).n
                  ELSE tn < ToNumber(c.value).n
    IN c.operator \in {"greaterThan", "lessThan"} =>
         lastOp.value = Bool(IF nonNumeric THEN FALSE ELSE cmp)

\* C14: with equals the dependent field is shown iff the target's entry has
\* the type and the value of the comparand (so never for an absent target),
\* with notEquals iff it has not, and without a conditional always.
C14_EqualsIsStrict ==
  lastOp.op = "render" =>
    LET c == schema.fields[1].conditional
        t == IF c.field \in DOMAIN formData THEN formData[c.field] ELSE Undefined
        same == /\ t.kind = c.value.kind
                /\ CASE t.kind = "string" -> t.s = c.value.s
                     [] t.kind = "number" -> t.n = c.value.n
                     [] t.kind = "boolean" -> t.b = c.value.b
                     [] t.kind = "null" -> TRUE
                     [] OTHER -> FALSE
    IN /\ (c.operator = "equals" => lastOp.value = Bool(same))
       /\ (c.operator = "notEquals" => lastOp.value = Bool(~ same))
       /\ (c.operator = "none" => lastOp.value = Bool(TRUE))

\* an equals conditional was evaluated on a typed value that is the comparand
C14_Witness ==
  /\ lastOp.op = "render"
  /\ schema.fields[1].conditional.operator = "equals"
  /\ formData["age"].kind = "string"
  /\ lastOp.value = Bool(TRUE)

\* C15: every evaluation of isFieldVisible returns a boolean (it never
\* throws), for a target name in or outside the value map, any comparand and
\* a target value of any type or absent.
C15_VisibilityTotal ==
  lastOp.op = "render" => lastOp.value \in {Bool(TRUE), Bool(FALSE)}

\* a contains conditional on a name that is no key of the value map was
\* evaluated and gave a boolean
C15_Witness ==
  /\ lastOp.op = "render"
  /\ schema.fields[1].conditional.operator = "contains"
  /\ schema.fields[1].conditional.field \notin DOMAIN formData
  /\ lastOp.value.kind = "boolean"

\* C16: after a validation pass an active select, radio or checkbox field
\* whose value passes the required check (a non-empty string, or true) has
\* no error: no min, max or regex rule is applied to it.
C16_ChoiceFieldsIgnoreRules ==
  Validated =>
    \A f \in ActiveFields :
      (f.type \in {"select", "radio", "checkbox"} /\ Truthy(formData[f.name])) =>
        f.name \notin DOMAIN errors

\* C17: after a validation pass an active date field whose value fails one
\* of its declared min, max or regex rules, read as for a text field, has
\* an error.
C17_DateRulesEnforced ==
  Validated =>
    \A f \in ActiveFields :
      (/\ f.type = "date"
       /\ formData[f.name].kind = "string"
       /\ RunChecks(FoldStringRules(f.validation), formData[f.name]) # <<>>) =>
        f.name \in DOMAIN errors

\* C18: after a validation pass an active field whose value passes the
\* required and the type check but fails two or more of its rules carries
\* the message of the first failing rule in declaration order.
C18_FirstFailingRuleWins ==
  Validated =>
    \A f \in ActiveFields :
      LET v == formData[f.name]
          failing == RunChecks(BaseChecks(f), v)
      IN (v.kind = "string" /\ v.s # <<>> /\ Len(failing) >= 2) =>
           (f.name \in DOMAIN errors /\ errors[f.name] = failing[1])

\* C19: an edit made while a submission is in flight is stored in the value
\* map in the very step it is received, on top of the edits before it, and
\* the outstanding call is left as it was: no call is added, none is
\* dropped and the form stays submitting.
C19_EditInFlight ==
  [][(isSubmitting /\ lastOp'.op = "change") =>
       /\ formData' = [formData EXCEPT ![lastOp'.name] = lastOp'.value]
       /\ pending' = pending
       /\ isSubmitting']_vars

\* the value of an edit received in flight is in the value map while the
\* one call is still outstanding
C19_Witness ==
  /\ isSubmitting /\ lastOp.op = "change"
  /\ formData[lastOp.name] = lastOp.value
  /\ formData # InitialFormData(schema.fields)
  /\ pending = <<schema>>

\* C20: a submit attempt whose validation fails (or throws) leaves the form
\* not submitting, and a form that is submitting eventually is not
\* submitting any more, with the outcome of the call as the form result.
C20_SubmitTerminates ==
  /\ [](lastOp.op \in {"submitInvalid", "submitThrew"} => ~ isSubmitting)
  /\ (isSubmitting ~> (~ isSubmitting /\ submitResult \in {"success", "failure"}))

\* a submission has settled with a failure and the form can be used again
C20_Witness ==
  /\ lastOp.op = "settledFailure"
  /\ ~ isSubmitting /\ submitResult = "failure" /\ pending = <<>>

\* C27: after a validation pass an active text or textarea field whose
\* non-empty value is shorter than the numeric bound of one of its min rules
\* or longer than the numeric bound of one of its max rules has an error.
C27_LengthRuleEnforced ==
  Validated =>
    \A f \in ActiveFields :
      LET v == formData[f.name]
      IN (f.type \in {"text", "textarea"} /\ v.kind = "string" /\ v.s # <<>>) =>
           \A k \in 1..Len(f.validation) :
             LET rule == f.validation[k]
                 bound == ToNumber(rule.value)
             IN (/\ rule.type \in {"min", "max"}
                 /\ rule.value # Str(<<>>) /\ bound # NaN
                 /\ IF rule.type = "min" THEN Len(v.s) < bound.n
                    ELSE Len(v.s) > bound.n) =>
                  f.name \in DOMAIN errors

\* C29: when a submission succeeds after the schema was replaced while it
\* was in flight, the value map after the settle is the value map of a form
\* freshly mounted with the schema now in effect.
C29_ResetUsesCurrentSchema ==
  [][(/\ Len(pending') < Len(pending)
      /\ submitResult' = "success"
      /\ Head(pending) # schema) =>
       formData' = InitialFormData(schema.fields)]_vars

\* C30: once the user has typed N into a number field, every field whose
\* conditional is "that field equals N", with N stored as a number, is
\* visible.
C30_EqualsTypedNumber ==
  \A i \in 1..Len(schema.fields) :
    LET f == schema.fields[i]
        c == f.conditional
    IN (/\ c.operator = "equals" /\ c.value.kind = "number"
        /\ \E j \in 1..Len(schema.fields) :
             schema.fields[j].name = c.field /\ schema.fields[j].type = "number"
        /\ lastOp.op = "change" /\ lastOp.name = c.field
        /\ lastOp.value # Str(<<>>) /\ ToNumber(lastOp.value) = c.value) =>
         IsFieldVisible(f, formData)

\* C28: after an edit of the options text the field's options are one per
\* non-blank line, in the order of the lines, each with a non-empty label
\* and a non-empty value taken from its line, and no two options of the
\* field have the same value.
C28_OptionsWellFormed ==
  lastOp.op = "options" =>
    \A i \in 1..Len(Fields) :
      Get(Fields[i], "id").s = lastOp.name =>
        LET lines == SelectSeq(Split(lastOp.value.s, "\n"), NonBlank)
            opts == Get(Fields[i], "options").items
        IN /\ Len(opts) = Len(lines)
           /\ \A k \in 1..Len(opts) :
                /\ Get(opts[k], "label").s # <<>>
                /\ Get(opts[k], "value").s # <<>>
                /\ Includes(lines[k], Get(opts[k], "label").s)
                /\ Includes(lines[k], Get(opts[k], "value").s)
           /\ \A k, l \in 1..Len(opts) :
                k # l => Get(opts[k], "value") # Get(opts[l], "value")

\* C21: in the editor every select or radio field has an options array and
\* no field of another type has an options key.
C21_OptionsFollowType ==
  \A i \in 1..Len(Fields) :
    IF HasOptionsType(TypeOf(Fields[i]))
    THEN Get(Fields[i], "options").kind = "array"
    ELSE "options" \notin DOMAIN Fields[i].props

\* C22: in the editor the ids of the fields are pairwise distinct, and an
\* update of a field in place leaves the id at every position as it was.
C22_IdsDistinctAndStable ==
  /\ [](\A i, j \in 1..Len(Fields) :
          i # j => Get(Fields[i], "id") # Get(Fields[j], "id"))
  /\ [][lastOp'.op \in {"type", "typeKept", "default", "options"} =>
          /\ Len(Fields') = Len(Fields)
          /\ \A i \in 1..Len(Fields) :
               Get(Fields'[i], "id") = Get(Fields[i], "id")]_vars

\* C23: in the editor, where no field is renamed by hand, the names of the
\* fields are pairwise distinct.
C23_NamesDistinct ==
  \A i, j \in 1..Len(Fields) :
    i # j => Get(Fields[i], "name") # Get(Fields[j], "name")

\* C24: the schema loadSchema hands to the app, at mount and on Load, is a
\* well-formed FormSchema: the saved one, or the default schema.
C24_LoadedSchemaWellFormed ==
  lastOp.op \in {"mount", "load"} => IsFormSchema(schema)

\* C25: an import replaces the schema only with a valid FormSchema; any
\* other file leaves the current schema as it was.
C25_ImportOnlyValid ==
  [][lastOp'.op \in {"import", "importFailed"} =>
       (schema' = schema \/ IsFormSchema(schema'))]_vars

\* C26 as stated: importing the file just exported yields a schema
\* structurally identical to the one exported.
C26_RoundTripIdentical ==
  [][(lastOp.op = "export" /\ lastOp'.op = "import"
        /\ lastOp'.name = "exported") => schema' = schema]_vars

\* every property read of the two values gives the same result
SameReads(a, b) ==
  \A k \in DOMAIN a.props \cup DOMAIN b.props : Get(a, k) = Get(b, k)

\* C26, amended: importing the file just exported yields the same title and
\* description and the same fields in the same order, every property of
\* every field reading as before; only keys whose value is undefined are
\* absent from the imported objects.
C26_RoundTripSameReads ==
  [][(lastOp.op = "export" /\ lastOp'.op = "import"
        /\ lastOp'.name = "exported") =>
       /\ Get(schema', "title") = Get(schema, "title")
       /\ Get(schema', "description") = Get(schema, "description")
       /\ Get(schema', "fields").kind = "array"
       /\ Len(Get(schema', "fields").items) = Len(Fields)
       /\ \A i \in 1..Len(Fields) :
            SameReads(Get(schema', "fields").items[i], Fields[i])]_vars

\* the exported file of a form with a field rebuilt by a type change has been
\* imported
C26_Witness ==
  /\ lastOp.op = "import" /\ lastOp.name = "exported"
  /\ ~ Crashed
  /\ \E i \in 1..Len(Fields) : TypeOf(Fields[i]) = "number"


====
